---- MODULE Spec2Model ----
(***************************************************************************)
(* Model of genai-product-catalog/backend/category.py: join_categories,     *)
(* retrieve, _rank, rank and retrieve_and_rank.                            *)
(*                                                                         *)
(* A Python str is a sequence of one-character strings, so that slicing,   *)
(* splitlines, lstrip, re.sub and split are computed character by          *)
(* character.  A state is one call of one entry point at one position.     *)
(***************************************************************************)
EXTENDS Integers, Sequences, FiniteSets, TLC

(***************************************************************************)
(* Bounds of the model.                                                    *)
(***************************************************************************)
\* longest LLM response, in lines
MaxLines == 2
\* longest candidate list handed to rank() directly
MaxCands == 2
\* largest embedding distance (distances are 0..MaxDist, 0 the closest)
MaxDist == 1

(***************************************************************************)
(* Python values.                                                          *)
(***************************************************************************)
\* Python's None / SQL NULL: no str equals it
None == <<"None">>

\* bool(v) of a column value: None and the empty str are falsy
Truthy(v) == v # None /\ v # <<>>

Min2(a, b) == IF a < b THEN a ELSE b

\* s[:-n] for n > 0
DropLast(s, n) == SubSeq(s, 1, Len(s) - Min2(n, Len(s)))

\* all sequences over S of length at most n
SeqsUpTo(S, n) == UNION {[1..k -> S] : k \in 0..n}

\* sep.join(parts)
RECURSIVE StrJoin(_, _)
StrJoin(parts, sep) ==
  IF parts = <<>> THEN <<>>
  ELSE IF Len(parts) = 1 THEN parts[1]
  ELSE parts[1] \o sep \o StrJoin(Tail(parts), sep)

(***************************************************************************)
(* Configuration (module config: read-only).                               *)
(***************************************************************************)
COLUMN_CATEGORIES == <<"c0_name", "c1_name", "c2_name">>

NumCols == Len(COLUMN_CATEGORIES)

(***************************************************************************)
(* _rank: parsing of the LLM response.                                     *)
(***************************************************************************)
IsLineBreak(c) == c = "\n"

IsSpace(c) == c = " "

IsDigit(c) == c \in {"1", "2"}

\* str.splitlines(): a line ends at a line break; no empty last line
RECURSIVE SplitLinesFrom(_, _, _)
SplitLinesFrom(s, i, cur) ==
  IF i > Len(s) THEN (IF cur = <<>> THEN <<>> ELSE <<cur>>)
  ELSE IF IsLineBreak(s[i]) THEN <<cur>> \o SplitLinesFrom(s, i + 1, <<>>)
  ELSE SplitLinesFrom(s, i + 1, Append(cur, s[i]))

SplitLines(s) == SplitLinesFrom(s, 1, <<>>)

\* str.lstrip()
RECURSIVE LStrip(_)
LStrip(s) == IF s # <<>> /\ IsSpace(Head(s)) THEN LStrip(Tail(s)) ELSE s

\* number of leading characters of s that satisfy the class
RECURSIVE CountDigits(_)
CountDigits(s) == IF s # <<>> /\ IsDigit(Head(s)) THEN 1 + CountDigits(Tail(s)) ELSE 0

RECURSIVE CountSpaces(_)
CountSpaces(s) == IF s # <<>> /\ IsSpace(Head(s)) THEN 1 + CountSpaces(Tail(s)) ELSE 0

\* re.sub(r"^\d+\.\s+", "", s): one or more digits, a dot, one or more spaces
StripOrdinal(s) ==
  LET d == CountDigits(s)
      afterDot == SubSeq(s, d + 2, Len(s))
      w == CountSpaces(afterDot)
  IN IF d >= 1 /\ Len(s) >= d + 1 /\ s[d + 1] = "." /\ w >= 1
     THEN SubSeq(afterDot, w + 1, Len(afterDot))
     ELSE s

\* s.split('->')
RECURSIVE SplitArrowFrom(_, _, _)
SplitArrowFrom(s, i, cur) ==
  IF i > Len(s) THEN <<cur>>
  ELSE IF i < Len(s) /\ s[i] = "-" /\ s[i + 1] = ">"
       THEN <<cur>> \o SplitArrowFrom(s, i + 2, <<>>)
       ELSE SplitArrowFrom(s, i + 1, Append(cur, s[i]))

SplitArrow(s) == SplitArrowFrom(s, 1, <<>>)

\* one line of the response as a category path
FormatLine(line) == SplitArrow(StripOrdinal(LStrip(line)))

\* formatted_res
FormattedRes(res) == [i \in 1..Len(res) |-> FormatLine(res[i])]

Range(s) == {s[i] : i \in 1..Len(s)}

\* list(dict.fromkeys(xs)) with every element kept: no deduplication
DictFromKeysKeepAll(xs) == xs

\* list(dict.fromkeys(xs)): first occurrences, in order
RECURSIVE DictFromKeys(_)
DictFromKeys(xs) ==
  IF xs = <<>> THEN <<>>
  ELSE LET init == DictFromKeys(SubSeq(xs, 1, Len(xs) - 1))
           last == xs[Len(xs)]
       IN IF last \in Range(init) THEN init ELSE Append(init, last)

\* the level-count check that lets every response through
LevelCountMismatchNever(formatted_res, candidates) == FALSE

\* len(formatted_res[0]) != len(candidates[0])
LevelCountMismatch(formatted_res, candidates) ==
  Len(formatted_res[1]) # Len(candidates[1])

\* _rank after llm.predict returned text: what it raises or returns
RankBody(text, candidates) ==
  LET res == SplitLines(text)
      formatted_res == FormattedRes(res)
  IN IF res = <<>> THEN [exc |-> "ValueError", value |-> <<>>]
     ELSE IF candidates = <<>> THEN [exc |-> "IndexError", value |-> <<>>]
     ELSE IF LevelCountMismatch(formatted_res, candidates)
          THEN [exc |-> "ValueError", value |-> <<>>]
          ELSE [exc |-> "none", value |-> DictFromKeys(formatted_res)]

\* rank's except branch
FallbackRanking(candidates) == DictFromKeys(candidates)

(***************************************************************************)
(* join_categories: the walk over one row.                                 *)
(***************************************************************************)
\* names that populate column 1, 2, 3 of the product table
LevelNames == << <<"A">>, <<"B">>, <<"C">> >>

\* what a cell of column i may hold: NULL, the empty string, or a name
CellValues(i) == {None, <<>>, LevelNames[i]}

\* ids of the products the table may hold
ProductIDs == { <<"p">>, <<"p", "x">> }

\* for col in config.COLUMN_CATEGORIES, on a row that holds the columns the
\* query selected (row.cols, the first category_depth ones): row[col] of a
\* column that was not selected is a KeyError
RECURSIVE WalkColumns(_, _, _, _)
WalkColumns(row, i, path, allow) ==
  IF i > NumCols THEN [exc |-> "none", path |-> path, col |-> 0]
  ELSE IF i > Len(row.cols) THEN [exc |-> "KeyError", path |-> path, col |-> i]
  ELSE IF Truthy(row.cols[i]) THEN WalkColumns(row, i + 1, Append(path, row.cols[i]), allow)
  ELSE IF allow
       THEN IF i = 1 THEN [exc |-> "ValueError", path |-> path, col |-> i]
            ELSE [exc |-> "none", path |-> path, col |-> 0]
       ELSE [exc |-> "ValueError", path |-> path, col |-> i]

\* defaultdict(list): a missing key reads as the empty list
Get(d, k) == IF k \in DOMAIN d THEN d[k] ELSE <<>>

\* rows the store may answer with: at most one per product asked for that it
\* holds, in any order, each with the first depth category columns
QueryResults(idlist, depth) ==
  LET held == ProductIDs \cap Range(idlist)
      Rows == [id : held, cols : {c \in [1..depth -> UNION {CellValues(i) : i \in 1..NumCols}] :
                                     \A i \in 1..depth : c[i] \in CellValues(i)}]
  IN {rs \in SeqsUpTo(Rows, Cardinality(held)) :
        \A i, j \in 1..Len(rs) : i # j => rs[i].id # rs[j].id}

(***************************************************************************)
(* retrieve: ids, candidates, sort.                                        *)
(***************************************************************************)
\* the 3-character suffix the index appends to a product id
Suffixes == { <<"x", "y", "z">> }

NeighborIDs == {p \o s : p \in ProductIDs, s \in Suffixes}

Neighbors == [id : NeighborIDs, distance : 0..MaxDist]

\* n.id[:-2]
ProductIdOf(nid) == DropLast(nid, 2)

\* sorted() that puts an element before the equal ones already placed
RECURSIVE SortedUnstable(_)
SortedUnstable(cs) ==
  IF cs = <<>> THEN <<>>
  ELSE LET init == SortedUnstable(SubSeq(cs, 1, Len(cs) - 1))
           x == cs[Len(cs)]
           k == Cardinality({i \in 1..Len(init) : init[i].distance < x.distance})
       IN SubSeq(init, 1, k) \o <<x>> \o SubSeq(init, k + 1, Len(init))

\* sorted(candidates, key=lambda d: d['distance']): ascending and stable
RECURSIVE SortedByDistance(_)
SortedByDistance(cs) ==
  IF cs = <<>> THEN <<>>
  ELSE LET init == SortedByDistance(SubSeq(cs, 1, Len(cs) - 1))
           x == cs[Len(cs)]
           k == Cardinality({i \in 1..Len(init) : init[i].distance <= x.distance})
       IN SubSeq(init, 1, k) \o <<x>> \o SubSeq(init, k + 1, Len(init))

\* the candidate list of retrieve, before sorting
BuildCandidates(ns, cats) ==
  [i \in 1..Len(ns) |-> [category |-> Get(cats, ProductIdOf(ns[i].id)),
                         id |-> ns[i].id,
                         distance |-> ns[i].distance]]

(***************************************************************************)
(* Inputs of the model.                                                    *)
(***************************************************************************)
\* how a line of an LLM response may start, and what may follow
LinePrefixes == { <<>>, <<" ", "1", ".", " ">>, <<"1", ".">> }

LineBodies == { <<>>, <<"A">>, <<"B">>, <<"A", "-", ">", "B">> }

ResponseLines == {p \o b : p \in LinePrefixes, b \in LineBodies}

\* texts llm.predict may return: up to MaxLines lines, the last one ended or not
Responses ==
  {StrJoin(ls, <<"\n">>) \o t : ls \in SeqsUpTo(ResponseLines, MaxLines), t \in {<<>>, <<"\n">>}}

\* category paths a caller of rank() may pass
RankPaths == { <<>>, << <<"A">> >>, << <<"B">> >>, << <<"A">>, <<"B">> >> }

\* id lists a caller of join_categories() may pass (non-empty)
JoinIdLists ==
  LET p == <<"p">>
      px == <<"p", "x">>
      q == <<"q">>
  IN { <<p>>, <<px>>, <<q>>, <<p, px>>, <<px, p>>, <<p, q>>, <<p, px, q>> }

NoErr == [type |-> "none", origin |-> "none", id |-> <<>>, col |-> 0]

Err(type, origin) == [type |-> type, origin |-> origin, id |-> <<>>, col |-> 0]

(***************************************************************************)
(* State.                                                                  *)
(***************************************************************************)
VARIABLES
  entry,       \* the function the caller invoked
  pc,          \* position in the call
  cfg,         \* config.CATEGORY_DEPTH, ALLOW_TRAILING_NULLS, NUM_NEIGHBORS
  image,       \* retrieve: whether an image was passed
  num_neighbors, \* retrieve: the argument
  ids, category_depth, allow_trailing_nulls, \* join_categories: the arguments
  embeds,      \* retrieve: the number of embedding vectors
  neighbors,   \* retrieve: what get_nn returned
  rows,        \* join_categories: the query result
  ri,          \* join_categories: index of the next row
  categories,  \* join_categories: the defaultdict
  retrieved,   \* retrieve_and_rank: what retrieve returned
  candidates,  \* rank: the argument
  response,    \* _rank: response.text
  result,      \* what the entry point returned
  err,         \* the exception the entry point ended with
  calls        \* the calls made to the external services, in order

vars == <<entry, pc, cfg, image, num_neighbors, ids, category_depth,
          allow_trailing_nulls, embeds, neighbors, rows, ri, categories,
          retrieved, candidates, response, result, err, calls>>

joinVars == <<rows, ri, categories>>

rankVars == <<candidates, response>>

\* numbers of neighbours a caller or the configuration may ask for
NeighborCounts == 1..2

Configs == [CATEGORY_DEPTH : 1..NumCols, ALLOW_TRAILING_NULLS : BOOLEAN,
            NUM_NEIGHBORS : NeighborCounts]

\* the configuration in a call that reads none of it
UnusedConfig == [CATEGORY_DEPTH |-> NumCols, ALLOW_TRAILING_NULLS |-> TRUE, NUM_NEIGHBORS |-> 1]

InitLocals ==
  /\ embeds = 0
  /\ neighbors = <<>>
  /\ rows = <<>>
  /\ ri = 1
  /\ categories = <<>>
  /\ retrieved = <<>>
  /\ response = None
  /\ result = <<>>
  /\ err = NoErr
  /\ calls = <<>>

\* a call of retrieve_and_rank(desc, image, base64, num_neighbors)
Init ==
  /\ entry = "retrieve_and_rank"
  /\ pc = "embed"
  /\ cfg \in Configs
  /\ image \in BOOLEAN
  /\ num_neighbors \in NeighborCounts
  /\ ids = <<>>
  /\ category_depth = cfg.CATEGORY_DEPTH
  /\ allow_trailing_nulls = cfg.ALLOW_TRAILING_NULLS
  /\ candidates = <<>>
  /\ InitLocals

\* a call of join_categories(ids, category_depth, allow_trailing_nulls)
InitJoin ==
  /\ entry = "join_categories"
  /\ pc = "join_query"
  /\ cfg = UnusedConfig
  /\ image = FALSE
  /\ num_neighbors = 1
  /\ ids \in JoinIdLists
  /\ category_depth \in 1..NumCols
  /\ allow_trailing_nulls \in BOOLEAN
  /\ candidates = <<>>
  /\ InitLocals

\* a call of rank(desc, candidates)
InitRank ==
  /\ entry = "rank"
  /\ pc = "llm_predict"
  /\ cfg = UnusedConfig
  /\ image = FALSE
  /\ num_neighbors = 1
  /\ ids = <<>>
  /\ category_depth = cfg.CATEGORY_DEPTH
  /\ allow_trailing_nulls = cfg.ALLOW_TRAILING_NULLS
  /\ candidates \in SeqsUpTo(RankPaths, MaxCands)
  /\ InitLocals

(***************************************************************************)
(* retrieve (lines 85-92).                                                 *)
(***************************************************************************)
\* embeddings.embed(desc, image, base64): one vector, two with an image
Embed ==
  /\ pc = "embed"
  /\ calls' = Append(calls, "embed")
  /\ \/ /\ embeds' = IF image THEN 2 ELSE 1
        /\ pc' = "get_nn"
        /\ err' = err
     \/ /\ embeds' = embeds
        /\ pc' = "raised"
        /\ err' = Err("EmbeddingError", "retrieve")
  /\ UNCHANGED <<entry, cfg, image, num_neighbors, ids, category_depth,
                 allow_trailing_nulls, neighbors, joinVars, retrieved, rankVars, result>>

\* the number of neighbours get_nn(embeds) is asked for, per embedding
NeighborsAskedFor == cfg.NUM_NEIGHBORS

\* nearest_neighbors.get_nn(embeds): up to k neighbours for each vector
GetNN ==
  /\ pc = "get_nn"
  /\ calls' = Append(calls, "get_nn")
  /\ \/ /\ neighbors' \in SeqsUpTo(Neighbors, NeighborsAskedFor * embeds)
        /\ pc' = "join_call"
        /\ err' = err
     \/ /\ neighbors' = neighbors
        /\ pc' = "raised"
        /\ err' = Err("RetrievalError", "retrieve")
  /\ UNCHANGED <<entry, cfg, image, num_neighbors, ids, category_depth,
                 allow_trailing_nulls, embeds, joinVars, retrieved, rankVars, result>>

\* ids = [n.id[:-2] for n in neighbors]; join_categories(ids)
JoinCall ==
  /\ pc = "join_call"
  /\ ids' = [i \in 1..Len(neighbors) |-> ProductIdOf(neighbors[i].id)]
  /\ category_depth' = cfg.CATEGORY_DEPTH
  /\ allow_trailing_nulls' = cfg.ALLOW_TRAILING_NULLS
  /\ pc' = "join_query"
  /\ UNCHANGED <<entry, cfg, image, num_neighbors, embeds, neighbors, joinVars,
                 retrieved, rankVars, result, err, calls>>

\* candidates = [...]; return sorted(candidates, key=distance)
RetrieveReturn ==
  /\ pc = "build_candidates"
  /\ retrieved' = SortedByDistance(BuildCandidates(neighbors, categories))
  /\ pc' = "rank_call"
  /\ UNCHANGED <<entry, cfg, image, num_neighbors, ids, category_depth,
                 allow_trailing_nulls, embeds, neighbors, joinVars, rankVars,
                 result, err, calls>>

(***************************************************************************)
(* join_categories (lines 33-57).                                          *)
(***************************************************************************)
\* bq_client.query(query).result(): "id IN ()" is no SQL, and the store may fail
BQQuery ==
  /\ pc = "join_query"
  /\ calls' = Append(calls, "bq_query")
  /\ \/ /\ ids # <<>>
        /\ rows' \in QueryResults(ids, category_depth)
        /\ pc' = "join_rows"
        /\ err' = err
     \/ /\ rows' = rows
        /\ pc' = "raised"
        /\ err' = Err("StoreError", "join_categories")
  /\ ri' = 1
  /\ categories' = <<>>
  /\ UNCHANGED <<entry, cfg, image, num_neighbors, ids, category_depth,
                 allow_trailing_nulls, embeds, neighbors, retrieved, rankVars, result>>

\* one pass of "for row in rows": the walk over the columns of rows[ri]
JoinRow ==
  /\ pc = "join_rows"
  /\ ri <= Len(rows)
  /\ LET row == rows[ri]
         w == WalkColumns(row, 1, <<>>, allow_trailing_nulls)
     IN IF w.exc = "none"
        THEN /\ categories' = (row.id :> (Get(categories, row.id) \o w.path)) @@ categories
             /\ ri' = ri + 1
             /\ pc' = pc
             /\ err' = err
        ELSE /\ categories' = categories
             /\ ri' = ri
             /\ pc' = "raised"
             /\ err' = [type |-> w.exc, origin |-> "join_categories",
                        id |-> row.id, col |-> w.col]
  /\ UNCHANGED <<entry, cfg, image, num_neighbors, ids, category_depth,
                 allow_trailing_nulls, embeds, neighbors, rows, retrieved,
                 rankVars, result, calls>>

\* return categories
JoinReturn ==
  /\ pc = "join_rows"
  /\ ri > Len(rows)
  /\ IF entry = "join_categories"
     THEN pc' = "done" /\ result' = categories
     ELSE pc' = "build_candidates" /\ result' = result
  /\ UNCHANGED <<entry, cfg, image, num_neighbors, ids, category_depth,
                 allow_trailing_nulls, embeds, neighbors, joinVars, retrieved,
                 rankVars, err, calls>>

(***************************************************************************)
(* rank and _rank (lines 94-146), retrieve_and_rank (lines 166-167).       *)
(***************************************************************************)
\* rank(desc, [candidate['category'] for candidate in candidates]).  The
\* frame of retrieve is gone, and neither the candidate dicts, the arguments
\* nor the configuration are read again: they are dropped from the state.
RankCall ==
  /\ pc = "rank_call"
  /\ candidates' = [i \in 1..Len(retrieved) |-> retrieved[i].category]
  /\ pc' = "llm_predict"
  /\ cfg' = UnusedConfig
  /\ image' = FALSE
  /\ num_neighbors' = 1
  /\ ids' = <<>>
  /\ category_depth' = UnusedConfig.CATEGORY_DEPTH
  /\ allow_trailing_nulls' = UnusedConfig.ALLOW_TRAILING_NULLS
  /\ embeds' = 0
  /\ neighbors' = <<>>
  /\ rows' = <<>>
  /\ ri' = 1
  /\ categories' = <<>>
  /\ retrieved' = <<>>
  /\ UNCHANGED <<entry, response, result, err, calls>>

\* response = llm.predict(query, ...): a text, or the call raises; what it
\* raises is a ValueError, which rank's except catches, or is not
LLMPredict ==
  /\ pc = "llm_predict"
  /\ calls' = Append(calls, "llm_predict")
  /\ \/ /\ response' \in Responses
        /\ pc' = "rank_body"
        /\ err' = err
     \/ /\ response' = response
        /\ pc' = "rank_except"
        /\ err' = err
     \/ /\ response' = response
        /\ pc' = "raised"
        /\ err' = Err("LLMError", "rank")
  /\ UNCHANGED <<entry, cfg, image, num_neighbors, ids, category_depth,
                 allow_trailing_nulls, embeds, neighbors, joinVars, retrieved,
                 candidates, result>>

\* the rest of _rank: a ValueError reaches rank's except, any other
\* exception leaves rank
RankParse ==
  /\ pc = "rank_body"
  /\ LET r == RankBody(response, candidates)
     IN CASE r.exc = "none" ->
               pc' = "done" /\ result' = r.value /\ err' = err
          [] r.exc = "ValueError" ->
               pc' = "rank_except" /\ result' = result /\ err' = err
          [] OTHER ->
               pc' = "raised" /\ result' = result /\ err' = Err(r.exc, "rank")
  /\ UNCHANGED <<entry, cfg, image, num_neighbors, ids, category_depth,
                 allow_trailing_nulls, embeds, neighbors, joinVars, retrieved,
                 rankVars, calls>>

\* an except branch that asks the LLM again instead of falling back
RankFallbackRetry ==
  /\ pc = "rank_except"
  /\ pc' = "llm_predict"
  /\ UNCHANGED <<entry, cfg, image, num_neighbors, ids, category_depth,
                 allow_trailing_nulls, embeds, neighbors, joinVars, retrieved,
                 rankVars, result, err, calls>>

\* except ValueError: return list(dict.fromkeys(...candidates))
RankFallback ==
  /\ pc = "rank_except"
  /\ result' = FallbackRanking(candidates)
  /\ pc' = "done"
  /\ UNCHANGED <<entry, cfg, image, num_neighbors, ids, category_depth,
                 allow_trailing_nulls, embeds, neighbors, joinVars, retrieved,
                 rankVars, err, calls>>

(***************************************************************************)
(* Specifications: one per entry point.                                    *)
(***************************************************************************)
Next ==
  \/ Embed
  \/ GetNN
  \/ JoinCall
  \/ BQQuery
  \/ JoinRow
  \/ JoinReturn
  \/ RetrieveReturn
  \/ RankCall
  \/ LLMPredict
  \/ RankParse
  \/ RankFallback

Spec == Init /\ [][Next]_vars

NextJoin == BQQuery \/ JoinRow \/ JoinReturn

SpecJoin == InitJoin /\ [][NextJoin]_vars

NextRank == LLMPredict \/ RankParse \/ RankFallback

SpecRank == InitRank /\ [][NextRank]_vars

(***************************************************************************)
(* Vocabulary of the properties.                                           *)
(***************************************************************************)
Terminated == pc \in {"done", "raised"}

NoDuplicates(s) == \A i, j \in 1..Len(s) : i # j => s[i] # s[j]

FirstIndex(s, x) == CHOOSE i \in 1..Len(s) : s[i] = x /\ \A j \in 1..(i - 1) : s[j] # x

\* out holds each distinct element of in once, in the order of first occurrence
IsFirstOccurrenceDedup(out, in) ==
  /\ NoDuplicates(out)
  /\ Range(out) = Range(in)
  /\ \A i, j \in 1..Len(out) : i < j => FirstIndex(in, out[i]) < FirstIndex(in, out[j])

\* the LLM answered, and its answer has no line
ZeroLines == response # None /\ SplitLines(response) = <<>>

\* the LLM answered, and its first path has another level count than candidates[0]
FirstPathMismatch ==
  /\ response # None
  /\ candidates # <<>>
  /\ SplitLines(response) # <<>>
  /\ Len(FormatLine(SplitLines(response)[1])) # Len(candidates[1])

FallbackCase == ZeroLines \/ FirstPathMismatch

(***************************************************************************)
(* C1: rank never raises: whatever the LLM call does and whatever the      *)
(* candidate list is, rank ends by returning, so no call ends with an      *)
(* error that originated in the ranker.                                    *)
(* Fails: only ValueError is caught; candidates[0] of an empty list and a  *)
(* failing llm.predict leave rank.                                         *)
(***************************************************************************)
C1_RankNeverRaises == ~(pc = "raised" /\ err.origin = "rank")

(***************************************************************************)
(* C2: when the response has zero lines, or its first parsed path has      *)
(* another level count than the first candidate, rank returns exactly the  *)
(* input candidates, duplicates removed, first occurrences in input order. *)
(***************************************************************************)
C2_FallbackReturnsDedupedInput ==
  (entry = "rank" /\ Terminated /\ FallbackCase) =>
     (pc = "done" /\ IsFirstOccurrenceDedup(result, candidates))

C2_Witness ==
  /\ entry = "rank"
  /\ pc = "done"
  /\ FirstPathMismatch
  /\ Len(result) < Len(candidates)
  /\ Len(SplitLines(response)) = 2

(***************************************************************************)
(* C3: what rank returns holds no path twice, and keeps the order of first *)
(* occurrence of the sequence it deduplicates: the parsed lines on         *)
(* success, the input candidates on fallback.                              *)
(***************************************************************************)
C3_RankResultDeduplicated ==
  (entry = "rank" /\ pc = "done") =>
     /\ NoDuplicates(result)
     /\ IsFirstOccurrenceDedup(result,
          IF response = None \/ FallbackCase THEN candidates
          ELSE FormattedRes(SplitLines(response)))

C3_Witness ==
  /\ entry = "rank"
  /\ pc = "done"
  /\ response # None
  /\ ~FallbackCase
  /\ Len(result) = 1
  /\ Len(SplitLines(response)) = 2
  /\ SplitLines(response)[1] # SplitLines(response)[2]

(***************************************************************************)
(* C4: retrieve returns one candidate per neighbour result, none added,    *)
(* dropped or merged, in non-decreasing order of distance, candidates of   *)
(* equal distance in the order the neighbour service returned them.        *)
(***************************************************************************)
\* the ids of the elements of s at distance d, in order
IdsAtDistance(s, d) ==
  LET at == SelectSeq(s, LAMBDA c : c.distance = d)
  IN [i \in 1..Len(at) |-> at[i].id]

RetrieveReturned == entry = "retrieve_and_rank" /\ pc = "rank_call"

C4_RetrieveSortedStable ==
  RetrieveReturned =>
     /\ Len(retrieved) = Len(neighbors)
     /\ \A i \in 1..(Len(retrieved) - 1) :
          retrieved[i].distance <= retrieved[i + 1].distance
     /\ \A d \in 0..(MaxDist + 1) :
          IdsAtDistance(retrieved, d) = IdsAtDistance(neighbors, d)

C4_Witness ==
  /\ RetrieveReturned
  /\ \E i, j \in 1..Len(neighbors) :
        i < j /\ neighbors[i].distance > neighbors[j].distance
  /\ \E i, j \in 1..Len(neighbors) :
        /\ i < j
        /\ neighbors[i].distance = neighbors[j].distance
        /\ neighbors[i].id # neighbors[j].id

(***************************************************************************)
(* C5: the product id retrieve derives from a neighbour identifier is the  *)
(* identifier without its last 3 characters, in the id list handed to      *)
(* join_categories and in the key of each candidate's category.            *)
(* Fails: the code slices [:-2].                                           *)
(***************************************************************************)
C5_ProductIdStripsThree ==
  /\ (entry = "retrieve_and_rank" /\ pc \in {"join_query", "join_rows", "build_candidates"}) =>
        \A i \in 1..Len(ids) : ids[i] = DropLast(neighbors[i].id, 3)
  /\ RetrieveReturned =>
        \A i \in 1..Len(retrieved) :
           retrieved[i].category = Get(categories, DropLast(retrieved[i].id, 3))

(***************************************************************************)
(* C6: the neighbour service is asked for the top num_neighbors matches of *)
(* each embedding, so retrieve returns at most num_neighbors candidates    *)
(* per embedding.                                                          *)
(* Fails: get_nn(embeds) is called without num_neighbors.                  *)
(***************************************************************************)
C6_AtMostNumNeighborsPerEmbedding ==
  RetrieveReturned => Len(retrieved) <= num_neighbors * embeds

(***************************************************************************)
(* C10: in a call of retrieve_and_rank the external calls are embed,       *)
(* neighbour query, store query, LLM call, in this order and each at most  *)
(* once; when a retrieval step fails the call ends there with that error,  *)
(* without a result and without the LLM; the fallback does not call the    *)
(* LLM again.                                                              *)
(***************************************************************************)
CallOrder == <<"embed", "get_nn", "bq_query", "llm_predict">>

RetrievalErrors == {"EmbeddingError", "RetrievalError", "StoreError", "ValueError", "KeyError"}

C10_CallOrder ==
  entry = "retrieve_and_rank" =>
     /\ Len(calls) <= Len(CallOrder)
     /\ calls = SubSeq(CallOrder, 1, Len(calls))
     /\ (err.origin \in {"retrieve", "join_categories"}) =>
           /\ pc = "raised"
           /\ err.type \in RetrievalErrors
           /\ ~ENABLED Next
           /\ result = <<>>
           /\ "llm_predict" \notin Range(calls)
           /\ calls[Len(calls)] = (CASE err.type = "EmbeddingError" -> "embed"
                                     [] err.type = "RetrievalError" -> "get_nn"
                                     [] OTHER -> "bq_query")
     /\ ("llm_predict" \in Range(calls)) => pc \in {"rank_body", "rank_except", "done", "raised"}
     /\ (pc \in {"rank_except", "done"}) => Len(calls) = Len(CallOrder)
     /\ (pc = "raised") => (err.type # "none" /\ result = <<>>)

C10_Witness ==
  /\ entry = "retrieve_and_rank"
  /\ pc = "raised"
  /\ err.type = "StoreError"
  /\ calls = <<"embed", "get_nn", "bq_query">>
  /\ neighbors # <<>>

(***************************************************************************)
(* Vocabulary of the properties of join_categories.                        *)
(***************************************************************************)
JoinEnded == entry = "join_categories" /\ Terminated /\ err.type # "StoreError"

\* the values of the columns before the first empty one
RECURSIVE PopulatedPrefix(_)
PopulatedPrefix(cols) ==
  IF cols = <<>> \/ ~Truthy(Head(cols)) THEN <<>>
  ELSE <<Head(cols)>> \o PopulatedPrefix(Tail(cols))

RootEmpty(row) == ~Truthy(row.cols[1])

(***************************************************************************)
(* C7: with allow_trailing_nulls=True, the path of every row whose first   *)
(* category column is populated is the values of the columns before the    *)
(* first empty one, in column order; a row whose first column is empty     *)
(* makes the call fail with an error that names the product.               *)
(* Fails for category_depth below the number of configured columns: see C9.*)
(***************************************************************************)
C7_TruncatesAtFirstNull ==
  (JoinEnded /\ allow_trailing_nulls) =>
     IF \E i \in 1..Len(rows) : RootEmpty(rows[i])
     THEN /\ pc = "raised"
          /\ err.type = "ValueError"
          /\ err.col = 1
          /\ \E i \in 1..Len(rows) : rows[i].id = err.id /\ RootEmpty(rows[i])
     ELSE /\ pc = "done"
          /\ DOMAIN result = {rows[i].id : i \in 1..Len(rows)}
          /\ \A i \in 1..Len(rows) : result[rows[i].id] = PopulatedPrefix(rows[i].cols)

(***************************************************************************)
(* C8: with allow_trailing_nulls=False the call fails with the invalid-    *)
(* data error, and returns no mapping, whenever a queried column is empty  *)
(* in a row of the result.                                                 *)
(* Fails for category_depth below the number of configured columns: see C9.*)
(***************************************************************************)
C8_NullRaisesWhenDisallowed ==
  (/\ JoinEnded
   /\ ~allow_trailing_nulls
   /\ \E i \in 1..Len(rows) : \E c \in 1..Len(rows[i].cols) : ~Truthy(rows[i].cols[c])) =>
     (pc = "raised" /\ err.type = "ValueError" /\ result = <<>>)

(***************************************************************************)
(* C9: for 1 <= category_depth <= the number of configured columns, only   *)
(* the first category_depth columns of a row are walked: no failure comes  *)
(* from a column beyond them and no path is longer than category_depth.    *)
(* Fails: the loop runs over all of COLUMN_CATEGORIES, and reading a       *)
(* column the query did not select is a KeyError.                          *)
(***************************************************************************)
C9_WalksOnlyDepthColumns ==
  JoinEnded =>
     /\ ~(err.type = "KeyError" /\ err.col > category_depth)
     /\ (pc = "done") =>
           \A id \in DOMAIN result :
              /\ Len(result[id]) <= category_depth
              /\ \A l \in 1..Len(result[id]) : result[id][l] = LevelNames[l]

====
